---- MODULE Spec2Model ----
(***************************************************************************)
(* RIODescQuery (rio/src/descquery.rs): the table of open descriptors of   *)
(* rair's IO layer.  Descriptors are reachable by handle (hndl_to_descs)   *)
(* and by physical address (paddr_to_hndls, an interval search tree).      *)
(*                                                                         *)
(* Handles are u64 and addresses are u64.  The specification Spec draws    *)
(* addresses and sizes from small sets far below 2^64, so that no u64      *)
(* addition or subtraction of the code wraps or aborts in it.              *)
(***************************************************************************)
EXTENDS Integers, Sequences, FiniteSets

\* ------------------------------------------------------------------ bounds
\* The window of the address space the calls work in: a descriptor is
\* opened only where it ends at or below MaxAddr, so at most MaxAddr + 1
\* descriptors are open at a time.
MaxAddr == 3
\* The backend reports descriptor sizes 1 .. MaxSize.
MaxSize == 2
\* paddr_range_to_hndl is called with size in 1 .. MaxLen.
MaxLen == 3
\* u64 arithmetic is arithmetic modulo 2^64. Where the top of the address
\* space matters the width is scaled down: Modulus stands for 2^64.
Modulus == 4
\* Largest size the backend reports where the top of the space matters.
WrapMaxSize == 2

VARIABLES
    hndl_to_descs,   \* Vec<Option<RIODesc>>: slot h+1 holds handle h
    paddr_to_hndls,  \* IST<u64, u64>: closed range -> hndl
    next_hndl,       \* next handle never used so far
    free_hndls,      \* BinaryHeap<Reverse<u64>>: released handles
    issued,          \* every value get_new_hndl has returned so far
    last,            \* the call that has just returned: its arguments, its
                     \* result and the state it was made in
    twin,            \* the run that makes the same calls except the
                     \* register_open_at calls that fail on overlap: its
                     \* state and what the last call returned in it
    build,           \* "debug" (overflow checks on) or "release" (wrapping)
    placing          \* register_open's loop, when it is followed step by step

vars == <<hndl_to_descs, paddr_to_hndls, next_hndl, free_hndls, issued, last,
          twin, build, placing>>

\* ------------------------------------------------------------ Option<T>
None == <<>>
Some(x) == <<x>>
is_none(o) == o = None
unwrap(o) == o[1]

\* --------------------------------------------- rtrees::ist::IST (contract)
\* The tree is kept as the sequence of its entries in key order (lo, then hi).
IST_new == <<>>

IST_key_le(a, b) == a.lo < b.lo \/ (a.lo = b.lo /\ a.hi <= b.hi)

\* insert(lo, hi, data): a new entry, after the entries whose key is not greater.
IST_insert(t, lo, hi, data) ==
    LET e == [lo |-> lo, hi |-> hi, data |-> data]
        IsBefore(x) == IST_key_le(x, e)
        IsAfter(x) == ~IST_key_le(x, e)
    IN  SelectSeq(t, IsBefore) \o <<e>> \o SelectSeq(t, IsAfter)

\* delete_envelop(lo, hi): removes the interval with these bounds.
IST_delete_envelop(t, lo, hi) ==
    LET Keep(x) == ~(x.lo = lo /\ x.hi = hi)
    IN  SelectSeq(t, Keep)

IST_entries_to_data(q) == [i \in 1..Len(q) |-> q[i].data]

\* overlap(lo, hi): the data of the intervals that intersect [lo, hi], by
\* ascending interval start.
IST_overlap(t, lo, hi) ==
    LET Hit(x) == x.lo <= hi /\ lo <= x.hi
    IN  IST_entries_to_data(SelectSeq(t, Hit))

\* at(point): the data of the intervals that contain point.
IST_at(t, point) ==
    LET Hit(x) == x.lo <= point /\ point <= x.hi
    IN  IST_entries_to_data(SelectSeq(t, Hit))

IST_size(t) == Len(t)

\* ------------------------------------------- BinaryHeap<Reverse<u64>>
\* The heap is kept as the ascending sequence of its elements: pop() takes
\* the greatest Reverse(h), which is the smallest h.
Heap_new == <<>>

Heap_push(q, h) ==
    LET IsBefore(x) == x <= h
        IsAfter(x) == x > h
    IN  SelectSeq(q, IsBefore) \o <<h>> \o SelectSeq(q, IsAfter)

Heap_peek(q) == q[1]
Heap_pop_rest(q) == Tail(q)

\* ---------------------------------------------------------------- state
\* The four fields of RIODescQuery as one record.
State(descs, ist, next, free) ==
    [descs |-> descs, ist |-> ist, next |-> next, free |-> free]

Cur == State(hndl_to_descs, paddr_to_hndls, next_hndl, free_hndls)

\* RIODescQuery::new()
new == State(<<>>, IST_new, 0, Heap_new)

\* RIODesc: the fields this structure reads and writes.
RIODesc(hndl, paddr, size) == [hndl |-> hndl, paddr |-> paddr, size |-> size]

\* RIODesc::open: the backend's answer, an error or a descriptor of the
\* size it reports, hndl and paddr still to be filled in.
RIODesc_open(ok, size) ==
    IF ok THEN [ok |-> TRUE, desc |-> RIODesc(0, 0, size)]
    ELSE [ok |-> FALSE, desc |-> RIODesc(0, 0, 0)]

\* The descriptor stored under hndl (the slot is known to be occupied).
desc_of(s, hndl) == unwrap(s.descs[hndl + 1])

set_slot(descs, hndl, v) == [descs EXCEPT ![hndl + 1] = v]

\* ------------------------------------------------------------ operations
\* Faulty variant of get_new_hndl: the pool is a max-heap (the Reverse
\* wrapper forgotten), so the greatest free handle is handed out.
get_new_hndl_max_heap(s) ==
    IF s.free # <<>>
    THEN [hndl |-> s.free[Len(s.free)],
          s |-> [s EXCEPT !.free = SubSeq(s.free, 1, Len(s.free) - 1)]]
    ELSE [hndl |-> s.next, s |-> [s EXCEPT !.next = s.next + 1]]

\* Faulty variant of get_new_hndl: the free handle is read, not popped.
get_new_hndl_peek_only(s) ==
    IF s.free # <<>>
    THEN [hndl |-> Heap_peek(s.free), s |-> s]
    ELSE [hndl |-> s.next, s |-> [s EXCEPT !.next = s.next + 1]]

\* Faulty variant of get_new_hndl: next_hndl does not advance.
get_new_hndl_no_increment(s) ==
    IF s.free # <<>>
    THEN [hndl |-> Heap_peek(s.free), s |-> [s EXCEPT !.free = Heap_pop_rest(s.free)]]
    ELSE [hndl |-> s.next, s |-> s]

\* get_new_hndl: the smallest free handle, else next_hndl, which advances.
get_new_hndl(s) ==
    IF s.free # <<>>
    THEN [hndl |-> Heap_peek(s.free), s |-> [s EXCEPT !.free = Heap_pop_rest(s.free)]]
    ELSE [hndl |-> s.next, s |-> [s EXCEPT !.next = s.next + 1]]

\* Faulty variant of register_handle: the handle is taken before the
\* backend is asked, and kept when the backend fails.
register_handle_alloc_first(s, opened) ==
    LET g == get_new_hndl(s)
        desc == [opened.desc EXCEPT !.hndl = g.hndl]
    IN  IF ~opened.ok
        THEN [ok |-> FALSE, hndl |-> 0, s |-> g.s]
        ELSE [ok |-> TRUE,
              hndl |-> g.hndl,
              s |-> [g.s EXCEPT !.descs =
                        IF g.hndl < Len(g.s.descs)
                        THEN set_slot(g.s.descs, g.hndl, Some(desc))
                        ELSE Append(g.s.descs, Some(desc))]]

\* Faulty variant of register_handle: desc.hndl is never written.
register_handle_no_hndl_field(s, opened) ==
    IF ~opened.ok
    THEN [ok |-> FALSE, hndl |-> 0, s |-> s]
    ELSE LET g == get_new_hndl(s)
             desc == opened.desc
         IN  [ok |-> TRUE,
              hndl |-> g.hndl,
              s |-> [g.s EXCEPT !.descs =
                        IF g.hndl < Len(g.s.descs)
                        THEN set_slot(g.s.descs, g.hndl, Some(desc))
                        ELSE Append(g.s.descs, Some(desc))]]

\* register_handle: opens the descriptor, gives it a handle and a slot.
\* Nothing is touched when the backend's open fails.
register_handle(s, opened) ==
    IF ~opened.ok
    THEN [ok |-> FALSE, hndl |-> 0, s |-> s]
    ELSE LET g == get_new_hndl(s)
             desc == [opened.desc EXCEPT !.hndl = g.hndl]
         IN  [ok |-> TRUE,
              hndl |-> g.hndl,
              s |-> [g.s EXCEPT !.descs =
                        IF g.hndl < Len(g.s.descs)
                        THEN set_slot(g.s.descs, g.hndl, Some(desc))
                        ELSE Append(g.s.descs, Some(desc))]]

\* The guard of deregister_hndl: no such slot, or an empty one.
hndl_not_found(s, hndl) ==
    hndl >= Len(s.descs) \/ is_none(s.descs[hndl + 1])

\* Faulty variant of deregister_hndl: the handle is released before the
\* slot is looked at.
deregister_hndl_push_first(s, hndl) ==
    IF hndl_not_found(s, hndl)
    THEN [ok |-> FALSE, desc |-> None,
          s |-> [s EXCEPT !.free = Heap_push(s.free, hndl)]]
    ELSE [ok |-> TRUE,
          desc |-> s.descs[hndl + 1],
          s |-> [s EXCEPT !.descs = set_slot(s.descs, hndl, None),
                          !.free = Heap_push(s.free, hndl)]]

\* Faulty variant of deregister_hndl: the slot is taken out of the vector
\* (Vec::remove), so the slots after it move down by one.
deregister_hndl_vec_remove(s, hndl) ==
    IF hndl_not_found(s, hndl)
    THEN [ok |-> FALSE, desc |-> None, s |-> s]
    ELSE [ok |-> TRUE,
          desc |-> s.descs[hndl + 1],
          s |-> [s EXCEPT !.descs = SubSeq(s.descs, 1, hndl)
                                      \o SubSeq(s.descs, hndl + 2, Len(s.descs)),
                          !.free = Heap_push(s.free, hndl)]]

\* Faulty variant of deregister_hndl: the handle is never released.
deregister_hndl_no_push(s, hndl) ==
    IF hndl_not_found(s, hndl)
    THEN [ok |-> FALSE, desc |-> None, s |-> s]
    ELSE [ok |-> TRUE,
          desc |-> s.descs[hndl + 1],
          s |-> [s EXCEPT !.descs = set_slot(s.descs, hndl, None)]]

\* deregister_hndl: empties the slot and releases the handle.
deregister_hndl(s, hndl) ==
    IF hndl_not_found(s, hndl)
    THEN [ok |-> FALSE, desc |-> None, s |-> s]
    ELSE [ok |-> TRUE,
          desc |-> s.descs[hndl + 1],
          s |-> [s EXCEPT !.descs = set_slot(s.descs, hndl, None),
                          !.free = Heap_push(s.free, hndl)]]

\* Faulty variant of close: the interval is deleted with hi one too high.
close_wrong_hi(s, hndl) ==
    LET d == deregister_hndl(s, hndl)
    IN  IF ~d.ok
        THEN [res |-> "HndlNotFoundError", desc |-> None, s |-> d.s]
        ELSE LET desc == unwrap(d.desc)
             IN  [res |-> "Ok",
                  desc |-> d.desc,
                  s |-> [d.s EXCEPT !.ist =
                            IST_delete_envelop(d.s.ist, desc.paddr,
                                               desc.paddr + desc.size)]]

\* close
close(s, hndl) ==
    LET d == deregister_hndl(s, hndl)
    IN  IF ~d.ok
        THEN [res |-> "HndlNotFoundError", desc |-> None, s |-> d.s]
        ELSE LET desc == unwrap(d.desc)
             IN  [res |-> "Ok",
                  desc |-> d.desc,
                  s |-> [d.s EXCEPT !.ist =
                            IST_delete_envelop(d.s.ist, desc.paddr,
                                               desc.paddr + desc.size - 1)]]

\* Faulty variant of advance_lo: one address is left free after the overlap.
advance_lo_skips_one(last_desc) == last_desc.paddr + last_desc.size + 1

\* The next candidate of register_open's loop: one past the last overlap.
advance_lo(last_desc) == last_desc.paddr + last_desc.size

\* The loop of register_open: the address it leaves in lo.
RECURSIVE first_fit(_, _, _)
first_fit(s, lo, size) ==
    LET overlaps == IST_overlap(s.ist, lo, lo + size - 1)
    IN  IF overlaps = <<>>
        THEN lo
        ELSE LET last_hndl == overlaps[Len(overlaps)]
             IN  first_fit(s, advance_lo(desc_of(s, last_hndl)), size)

\* Faulty variant of register_open: the interval inserted is one too long.
register_open_long_interval(s, opened) ==
    LET r == register_handle(s, opened)
    IN  IF ~r.ok
        THEN [res |-> "BackendError", hndl |-> 0, s |-> r.s]
        ELSE LET size == desc_of(r.s, r.hndl).size
                 lo == first_fit(r.s, 0, size)
                 placed == [desc_of(r.s, r.hndl) EXCEPT !.paddr = lo]
             IN  [res |-> "Ok",
                  hndl |-> r.hndl,
                  s |-> [r.s EXCEPT
                            !.descs = set_slot(r.s.descs, r.hndl, Some(placed)),
                            !.ist = IST_insert(r.s.ist, lo, lo + size, r.hndl)]]

\* register_open
register_open(s, opened) ==
    LET r == register_handle(s, opened)
    IN  IF ~r.ok
        THEN [res |-> "BackendError", hndl |-> 0, s |-> r.s]
        ELSE LET size == desc_of(r.s, r.hndl).size
                 lo == first_fit(r.s, 0, size)
                 placed == [desc_of(r.s, r.hndl) EXCEPT !.paddr = lo]
             IN  [res |-> "Ok",
                  hndl |-> r.hndl,
                  s |-> [r.s EXCEPT
                            !.descs = set_slot(r.s.descs, r.hndl, Some(placed)),
                            !.ist = IST_insert(r.s.ist, lo, lo + size - 1, r.hndl)]]

\* Faulty variant of register_open_at: only the first address of the range
\* is tested for overlap.
register_open_at_point_check(s, opened, at) ==
    LET r == register_handle(s, opened)
    IN  IF ~r.ok
        THEN [res |-> "BackendError", hndl |-> 0, s |-> r.s]
        ELSE LET lo == at
                 hi == at + desc_of(r.s, r.hndl).size - 1
             IN  IF IST_overlap(r.s.ist, lo, lo) # <<>>
                 THEN [res |-> "AddressesOverlapError",
                       hndl |-> r.hndl,
                       s |-> deregister_hndl(r.s, r.hndl).s]
                 ELSE LET placed == [desc_of(r.s, r.hndl) EXCEPT !.paddr = lo]
                      IN  [res |-> "Ok",
                           hndl |-> r.hndl,
                           s |-> [r.s EXCEPT
                                     !.descs = set_slot(r.s.descs, r.hndl, Some(placed)),
                                     !.ist = IST_insert(r.s.ist, lo, hi, r.hndl)]]

\* Faulty variant of register_open_at: the range tested for overlap is one
\* address too long.
register_open_at_check_too_long(s, opened, at) ==
    LET r == register_handle(s, opened)
    IN  IF ~r.ok
        THEN [res |-> "BackendError", hndl |-> 0, s |-> r.s]
        ELSE LET lo == at
                 hi == at + desc_of(r.s, r.hndl).size - 1
             IN  IF IST_overlap(r.s.ist, lo, hi + 1) # <<>>
                 THEN [res |-> "AddressesOverlapError",
                       hndl |-> r.hndl,
                       s |-> deregister_hndl(r.s, r.hndl).s]
                 ELSE LET placed == [desc_of(r.s, r.hndl) EXCEPT !.paddr = lo]
                      IN  [res |-> "Ok",
                           hndl |-> r.hndl,
                           s |-> [r.s EXCEPT
                                     !.descs = set_slot(r.s.descs, r.hndl, Some(placed)),
                                     !.ist = IST_insert(r.s.ist, lo, hi, r.hndl)]]

\* register_open_at
register_open_at(s, opened, at) ==
    LET r == register_handle(s, opened)
    IN  IF ~r.ok
        THEN [res |-> "BackendError", hndl |-> 0, s |-> r.s]
        ELSE LET lo == at
                 hi == at + desc_of(r.s, r.hndl).size - 1
             IN  IF IST_overlap(r.s.ist, lo, hi) # <<>>
                 THEN [res |-> "AddressesOverlapError",
                       hndl |-> r.hndl,
                       s |-> deregister_hndl(r.s, r.hndl).s]
                 ELSE LET placed == [desc_of(r.s, r.hndl) EXCEPT !.paddr = lo]
                      IN  [res |-> "Ok",
                           hndl |-> r.hndl,
                           s |-> [r.s EXCEPT
                                     !.descs = set_slot(r.s.descs, r.hndl, Some(placed)),
                                     !.ist = IST_insert(r.s.ist, lo, hi, r.hndl)]]

\* hndl_to_desc
hndl_to_desc(s, hndl) ==
    IF hndl >= Len(s.descs) THEN None ELSE s.descs[hndl + 1]

\* hndl_to_mut_desc: the same lookup, handing out a mutable reference.
hndl_to_mut_desc(s, hndl) ==
    IF hndl >= Len(s.descs) THEN None ELSE s.descs[hndl + 1]

\* Faulty variant of paddr_to_hndl: the tree is asked about the next address.
paddr_to_hndl_next_address(s, paddr) ==
    LET hndl == IST_at(s.ist, paddr + 1)
    IN  IF hndl = <<>> THEN None ELSE Some(hndl[1])

\* paddr_to_hndl
paddr_to_hndl(s, paddr) ==
    LET hndl == IST_at(s.ist, paddr)
    IN  IF hndl = <<>> THEN None ELSE Some(hndl[1])

min(a, b) == IF a <= b THEN a ELSE b

\* Faulty variant of chunk_delta: the offset into the descriptor is ignored.
chunk_delta_no_offset(remaining, desc, start) ==
    min(remaining, desc.size)

\* One chunk of paddr_range_to_hndl: what the descriptor gives from start on.
chunk_delta(remaining, desc, start) ==
    min(remaining, desc.size - (start - desc.paddr))

\* The for loop of paddr_range_to_hndl from the i-th overlapping handle on.
RECURSIVE range_loop(_, _, _, _, _, _)
range_loop(s, hndls, i, start, remaining, ranged_hndl) ==
    IF i > Len(hndls)
    THEN [gap |-> FALSE, remaining |-> remaining, ranged_hndl |-> ranged_hndl]
    ELSE LET desc == unwrap(hndl_to_desc(s, hndls[i]))
         IN  IF start < desc.paddr
             THEN [gap |-> TRUE, remaining |-> remaining, ranged_hndl |-> ranged_hndl]
             ELSE LET delta == chunk_delta(remaining, desc, start)
                  IN  range_loop(s, hndls, i + 1, start + delta, remaining - delta,
                                 Append(ranged_hndl, <<hndls[i], start, delta>>))

\* Faulty variant of paddr_range_to_hndl: what remains after the last
\* overlapping descriptor is not looked at.
paddr_range_to_hndl_no_remaining_check(s, paddr, size) ==
    LET hndls == IST_overlap(s.ist, paddr, paddr + size - 1)
    IN  IF hndls = <<>>
        THEN None
        ELSE LET l == range_loop(s, hndls, 1, paddr, size, <<>>)
             IN  IF l.gap THEN None
                 ELSE Some(l.ranged_hndl)

\* paddr_range_to_hndl
paddr_range_to_hndl(s, paddr, size) ==
    LET hndls == IST_overlap(s.ist, paddr, paddr + size - 1)
    IN  IF hndls = <<>>
        THEN None
        ELSE LET l == range_loop(s, hndls, 1, paddr, size, <<>>)
             IN  IF l.gap THEN None
                 ELSE IF l.remaining # 0 THEN None
                 ELSE Some(l.ranged_hndl)

\* ------------------------------------------------------- the calls made
\* What is recorded of a call: op and its arguments (hndl for close; at and
\* size for the opens, size being what the backend reported; at and size
\* for the range query), its result (res, and hndl, desc or chunks), and the
\* state it was made in.
Call(op, hndl, at, size, res, desc, chunks, pre) ==
    [op |-> op, hndl |-> hndl, at |-> at, size |-> size, res |-> res,
     desc |-> desc, chunks |-> chunks, pre |-> pre, issued_before |-> issued]

\* No call has returned since the caller took the last result.
NoCall ==
    [op |-> "none", hndl |-> 0, at |-> 0, size |-> 0, res |-> "Ok",
     desc |-> None, chunks |-> None, pre |-> new, issued_before |-> {}]

Idle == last.op = "none"

\* What a caller sees of a call: the result, the handle, the address an open
\* placed its descriptor at, the descriptor close returned, the chunks or
\* descriptor a query returned.
Outcome(res, hndl, paddr, desc, chunks) ==
    [res |-> res, hndl |-> hndl, paddr |-> paddr, desc |-> desc, chunks |-> chunks]

NoOutcome == Outcome("Ok", 0, 0, None, None)

\* The call op made in state s: what the caller sees, and the state after.
\* ok is whether the backend's open succeeds, size what it reports.
call_on(s, op, ok, hndl, at, size) ==
    CASE op \in {"register_open", "register_open_at"} ->
           LET r == IF op = "register_open"
                    THEN register_open(s, RIODesc_open(ok, size))
                    ELSE register_open_at(s, RIODesc_open(ok, size), at)
           IN  [out |-> Outcome(r.res, r.hndl,
                                IF r.res = "Ok" THEN desc_of(r.s, r.hndl).paddr ELSE 0,
                                None, None),
                s |-> r.s]
      [] op = "close" ->
           LET r == close(s, hndl)
           IN  [out |-> Outcome(r.res, hndl, 0, r.desc, None), s |-> r.s]
      [] op = "paddr_range_to_hndl" ->
           LET r == paddr_range_to_hndl(s, at, size)
           IN  [out |-> Outcome(IF r = None THEN "None" ELSE "Some", 0, 0, None, r),
                s |-> s]
      [] op = "paddr_to_hndl" ->
           LET r == paddr_to_hndl(s, at)
           IN  [out |-> Outcome(IF r = None THEN "None" ELSE "Some",
                                IF r = None THEN 0 ELSE unwrap(r), 0, None, None),
                s |-> s]
      [] op = "hndl_to_desc" ->
           LET r == hndl_to_desc(s, hndl)
           IN  [out |-> Outcome(IF r = None THEN "None" ELSE "Some", hndl, 0, r, None),
                s |-> s]
      [] op = "hndl_to_mut_desc" ->
           LET r == hndl_to_mut_desc(s, hndl)
           IN  [out |-> Outcome(IF r = None THEN "None" ELSE "Some", hndl, 0, r, None),
                s |-> s]

\* No register_open loop is being followed.
NoPlacing == [active |-> FALSE, hndl |-> 0, size |-> 0, lo |-> 0, prev |-> None]

\* The twin run makes the call too, unless it is a register_open_at that has
\* just failed on overlap in this run: that call the twin run never makes.
\* The calls of Spec are made in one piece and stay clear of the top of the
\* address space, where alone the two builds differ.
Twin(res, op, ok, hndl, at, size) ==
    /\ twin' = IF op = "register_open_at" /\ res = "AddressesOverlapError"
               THEN [twin EXCEPT !.out = NoOutcome]
               ELSE call_on(twin.s, op, ok, hndl, at, size)
    /\ UNCHANGED <<build, placing>>

\* The handle get_new_hndl hands out in state s.
issued_by(s) == get_new_hndl(s).hndl

Install(s) ==
    /\ hndl_to_descs' = s.descs
    /\ paddr_to_hndls' = s.ist
    /\ next_hndl' = s.next
    /\ free_hndls' = s.free

Fresh ==
    /\ hndl_to_descs = new.descs
    /\ paddr_to_hndls = new.ist
    /\ next_hndl = new.next
    /\ free_hndls = new.free
    /\ issued = {}
    /\ last = [NoCall EXCEPT !.op = "new"]
    /\ twin = [out |-> NoOutcome, s |-> new]
    /\ placing = NoPlacing

Init ==
    /\ Fresh
    /\ build = "release"

\* The caller takes the result; the structure is ready for the next call.
Return ==
    /\ ~Idle
    /\ last' = NoCall
    /\ twin' = [twin EXCEPT !.out = NoOutcome]
    /\ UNCHANGED <<hndl_to_descs, paddr_to_hndls, next_hndl, free_hndls, issued,
                   build, placing>>

\* The backend's open fails, under register_open or register_open_at; no
\* descriptor exists, and the call is recorded with size 0.
CallOpenBackendError ==
    /\ Idle
    /\ \E op \in {"register_open", "register_open_at"}, at \in 0..MaxAddr :
          LET r == IF op = "register_open"
                   THEN register_open(Cur, RIODesc_open(FALSE, 0))
                   ELSE register_open_at(Cur, RIODesc_open(FALSE, 0), at)
          IN  /\ op = "register_open" => at = 0
              /\ Install(r.s)
              /\ issued' = issued
              /\ last' = Call(op, r.hndl, at, 0, r.res, None, None, Cur)
              /\ Twin(r.res, op, FALSE, 0, at, 0)

\* register_open of a descriptor that finds its place inside the window.
CallRegisterOpen ==
    /\ Idle
    /\ \E size \in 1..MaxSize :
          LET r == register_open(Cur, RIODesc_open(TRUE, size))
          IN  /\ desc_of(r.s, r.hndl).paddr + size - 1 <= MaxAddr
              /\ Install(r.s)
              /\ issued' = issued \cup {issued_by(Cur)}
              /\ last' = Call("register_open", r.hndl, 0, size, r.res, None, None, Cur)
              /\ Twin(r.res, "register_open", TRUE, 0, 0, size)

\* register_open_at of a descriptor at an address inside the window.
CallRegisterOpenAt ==
    /\ Idle
    /\ \E size \in 1..MaxSize, at \in 0..MaxAddr :
          LET r == register_open_at(Cur, RIODesc_open(TRUE, size), at)
          IN  /\ at + size - 1 <= MaxAddr
              /\ Install(r.s)
              /\ issued' = issued \cup {issued_by(Cur)}
              /\ last' = Call("register_open_at", r.hndl, at, size, r.res, None, None, Cur)
              /\ Twin(r.res, "register_open_at", TRUE, 0, at, size)

\* close of any handle value: live, released, or never issued.
CallClose ==
    /\ Idle
    /\ \E hndl \in 0..(MaxAddr + 2) :
          LET r == close(Cur, hndl)
          IN  /\ Install(r.s)
              /\ issued' = issued
              /\ last' = Call("close", hndl, 0, 0, r.res, r.desc, None, Cur)
              /\ Twin(r.res, "close", TRUE, hndl, 0, 0)

\* paddr_range_to_hndl of a range that starts in the window or just past it.
CallPaddrRangeToHndl ==
    /\ Idle
    /\ \E paddr \in 0..(MaxAddr + 1), size \in 1..MaxLen :
          LET r == paddr_range_to_hndl(Cur, paddr, size)
          IN  /\ UNCHANGED <<hndl_to_descs, paddr_to_hndls, next_hndl, free_hndls, issued>>
              /\ last' = Call("paddr_range_to_hndl", 0, paddr, size,
                              IF r = None THEN "None" ELSE "Some", None, r, Cur)
              /\ Twin("Ok", "paddr_range_to_hndl", TRUE, 0, paddr, size)

\* paddr_to_hndl of an address in the window or just past it.
CallPaddrToHndl ==
    /\ Idle
    /\ \E paddr \in 0..(MaxAddr + 1) :
          LET r == paddr_to_hndl(Cur, paddr)
          IN  /\ UNCHANGED <<hndl_to_descs, paddr_to_hndls, next_hndl, free_hndls, issued>>
              /\ last' = Call("paddr_to_hndl", IF r = None THEN 0 ELSE unwrap(r),
                              paddr, 0, IF r = None THEN "None" ELSE "Some",
                              None, None, Cur)
              /\ Twin("Ok", "paddr_to_hndl", TRUE, 0, paddr, 0)

\* hndl_to_desc or hndl_to_mut_desc of any handle value.
CallHndlToDesc ==
    /\ Idle
    /\ \E hndl \in 0..(MaxAddr + 2), op \in {"hndl_to_desc", "hndl_to_mut_desc"} :
          LET r == IF op = "hndl_to_desc"
                   THEN hndl_to_desc(Cur, hndl)
                   ELSE hndl_to_mut_desc(Cur, hndl)
          IN  /\ UNCHANGED <<hndl_to_descs, paddr_to_hndls, next_hndl, free_hndls, issued>>
              /\ last' = Call(op, hndl, 0, 0, IF r = None THEN "None" ELSE "Some",
                              r, None, Cur)
              /\ Twin("Ok", op, TRUE, hndl, 0, 0)

Next ==
    \/ Return
    \/ CallOpenBackendError
    \/ CallRegisterOpen
    \/ CallRegisterOpenAt
    \/ CallClose
    \/ CallPaddrRangeToHndl
    \/ CallPaddrToHndl
    \/ CallHndlToDesc

Spec == Init /\ [][Next]_vars

\* --------------------------------------- the top of the address space
\* a + b and a - b in u64. An overflow aborts the call in a debug build
\* (ok is FALSE) and wraps modulo 2^64 in a release build.
u64_add(a, b, bld) ==
    IF a + b < Modulus THEN [ok |-> TRUE, v |-> a + b]
    ELSE IF bld = "debug" THEN [ok |-> FALSE, v |-> 0]
    ELSE [ok |-> TRUE, v |-> (a + b) % Modulus]

u64_sub(a, b, bld) ==
    IF a - b >= 0 THEN [ok |-> TRUE, v |-> a - b]
    ELSE IF bld = "debug" THEN [ok |-> FALSE, v |-> 0]
    ELSE [ok |-> TRUE, v |-> (a - b) % Modulus]

\* lo + size - 1, which is (lo + size) - 1.
interval_hi(lo, size, bld) ==
    LET sum == u64_add(lo, size, bld)
    IN  IF ~sum.ok THEN sum ELSE u64_sub(sum.v, 1, bld)

\* register_open_at in u64. The call panics when the arithmetic overflows
\* in a debug build; it hands the tree a range with lo > hi when hi ends up
\* below at, and what the tree does with such a range is not followed.
register_open_at_u64(s, opened, at, bld) ==
    LET r == register_handle(s, opened)
    IN  IF ~r.ok
        THEN [res |-> "BackendError", hndl |-> 0, s |-> r.s]
        ELSE LET lo == at
                 hi == interval_hi(at, desc_of(r.s, r.hndl).size, bld)
             IN  IF ~hi.ok
                 THEN [res |-> "Panic", hndl |-> r.hndl, s |-> r.s]
                 ELSE IF lo > hi.v
                 THEN [res |-> "OutOfContract", hndl |-> r.hndl, s |-> r.s]
                 ELSE IF IST_overlap(r.s.ist, lo, hi.v) # <<>>
                 THEN [res |-> "AddressesOverlapError",
                       hndl |-> r.hndl,
                       s |-> deregister_hndl(r.s, r.hndl).s]
                 ELSE LET placed == [desc_of(r.s, r.hndl) EXCEPT !.paddr = lo]
                      IN  [res |-> "Ok",
                           hndl |-> r.hndl,
                           s |-> [r.s EXCEPT
                                     !.descs = set_slot(r.s.descs, r.hndl, Some(placed)),
                                     !.ist = IST_insert(r.s.ist, lo, hi.v, r.hndl)]]

\* close in u64.
close_u64(s, hndl, bld) ==
    LET d == deregister_hndl(s, hndl)
    IN  IF ~d.ok
        THEN [res |-> "HndlNotFoundError", desc |-> None, s |-> d.s]
        ELSE LET desc == unwrap(d.desc)
                 hi == interval_hi(desc.paddr, desc.size, bld)
             IN  IF ~hi.ok
                 THEN [res |-> "Panic", desc |-> None, s |-> d.s]
                 ELSE [res |-> "Ok",
                       desc |-> d.desc,
                       s |-> [d.s EXCEPT !.ist =
                                 IST_delete_envelop(d.s.ist, desc.paddr, hi.v)]]

\* One pass through the loop of register_open, in u64, for the descriptor
\* of handle hndl and candidate address lo: the loop ends ("Ok", descriptor
\* placed at lo), goes round again ("Running", with the next lo), or the call
\* panics or leaves the tree's contract as in register_open_at_u64.
register_open_pass(s, hndl, lo, bld) ==
    LET size == desc_of(s, hndl).size
        hi == interval_hi(lo, size, bld)
    IN  IF ~hi.ok THEN [res |-> "Panic", lo |-> lo, s |-> s]
        ELSE IF lo > hi.v THEN [res |-> "OutOfContract", lo |-> lo, s |-> s]
        ELSE LET overlaps == IST_overlap(s.ist, lo, hi.v)
             IN  IF overlaps = <<>>
                 THEN LET placed == [desc_of(s, hndl) EXCEPT !.paddr = lo]
                      IN  [res |-> "Ok",
                           lo |-> lo,
                           s |-> [s EXCEPT
                                     !.descs = set_slot(s.descs, hndl, Some(placed)),
                                     !.ist = IST_insert(s.ist, lo, hi.v, hndl)]]
                 ELSE LET last_desc == desc_of(s, overlaps[Len(overlaps)])
                          next_lo == u64_add(last_desc.paddr, last_desc.size, bld)
                      IN  IF ~next_lo.ok
                          THEN [res |-> "Panic", lo |-> lo, s |-> s]
                          ELSE [res |-> "Running", lo |-> next_lo.v, s |-> s]

\* The run is over: the call has panicked, or the tree has been handed a
\* range outside its contract.
Stopped == last.res \in {"Panic", "OutOfContract"}

InitWrap ==
    /\ Fresh
    /\ build \in {"debug", "release"}

WrapReturn ==
    /\ ~Idle
    /\ ~Stopped
    /\ ~placing.active
    /\ last' = NoCall
    /\ UNCHANGED <<hndl_to_descs, paddr_to_hndls, next_hndl, free_hndls, issued,
                   twin, build, placing>>

\* register_open_at of a descriptor of any size, 0 included, at any address.
WrapRegisterOpenAt ==
    /\ Idle
    /\ \E size \in 0..WrapMaxSize, at \in 0..(Modulus - 1) :
          LET r == register_open_at_u64(Cur, RIODesc_open(TRUE, size), at, build)
          IN  /\ Install(r.s)
              /\ issued' = issued \cup {issued_by(Cur)}
              /\ last' = Call("register_open_at", r.hndl, at, size, r.res, None, None, Cur)
              /\ UNCHANGED <<twin, build, placing>>

\* register_open up to its loop: the descriptor is opened and registered,
\* lo is 0.
WrapRegisterOpenStart ==
    /\ Idle
    /\ \E size \in 0..WrapMaxSize :
          LET r == register_handle(Cur, RIODesc_open(TRUE, size))
          IN  /\ Install(r.s)
              /\ issued' = issued \cup {issued_by(Cur)}
              /\ last' = Call("register_open", r.hndl, 0, size, "Running", None, None, Cur)
              /\ placing' = [active |-> TRUE, hndl |-> r.hndl, size |-> size,
                             lo |-> 0, prev |-> None]
              /\ UNCHANGED <<twin, build>>

\* One pass through the loop of register_open.
WrapRegisterOpenPass ==
    /\ placing.active
    /\ LET r == register_open_pass(Cur, placing.hndl, placing.lo, build)
       IN  /\ Install(r.s)
           /\ last' = [last EXCEPT !.res = r.res]
           /\ placing' = IF r.res = "Ok" THEN NoPlacing
                          ELSE IF r.res = "Running"
                          THEN [placing EXCEPT !.lo = r.lo, !.prev = Some(placing.lo)]
                          ELSE [placing EXCEPT !.active = FALSE]
           /\ UNCHANGED <<issued, twin, build>>

\* close of any handle value.
WrapClose ==
    /\ Idle
    /\ \E hndl \in 0..Modulus :
          LET r == close_u64(Cur, hndl, build)
          IN  /\ Install(r.s)
              /\ last' = Call("close", hndl, 0, 0, r.res, r.desc, None, Cur)
              /\ UNCHANGED <<issued, twin, build, placing>>

NextWrap ==
    \/ WrapReturn
    \/ WrapRegisterOpenAt
    \/ WrapRegisterOpenStart
    \/ WrapRegisterOpenPass
    \/ WrapClose

SpecWrap == InitWrap /\ [][NextWrap]_vars

\* ------------------------------------------------------------ properties
\* The elements of a sequence.
Range(q) == {q[i] : i \in 1..Len(q)}

\* The handles with an occupied slot in state s.
Live(s) == {h \in 0..(Len(s.descs) - 1) : ~is_none(s.descs[h + 1])}

\* The closed interval [paddr, paddr + size - 1] of a descriptor.
lo_of(d) == d.paddr
hi_of(d) == d.paddr + d.size - 1

Intersects(lo1, hi1, lo2, hi2) == lo1 <= hi2 /\ lo2 <= hi1

\* Address a lies in the interval of some live descriptor of s.
Mapped(s, a) ==
    \E h \in Live(s) : lo_of(desc_of(s, h)) <= a /\ a <= hi_of(desc_of(s, h))

\* [a, a + size - 1] intersects no live interval of s.
Fits(s, a, size) ==
    \A h \in Live(s) :
        ~Intersects(a, a + size - 1, lo_of(desc_of(s, h)), hi_of(desc_of(s, h)))

IsOpen == last.op \in {"register_open", "register_open_at"}

\* C1: the intervals [paddr, paddr + size - 1] of two distinct live handles
\* never overlap, after any sequence of register_open, register_open_at and
\* close calls with descriptor sizes >= 1.
C1_IntervalsDisjoint ==
    \A h1, h2 \in Live(Cur) :
        h1 # h2 =>
            ~Intersects(lo_of(desc_of(Cur, h1)), hi_of(desc_of(Cur, h1)),
                        lo_of(desc_of(Cur, h2)), hi_of(desc_of(Cur, h2)))

\* A descriptor of size 2 has been opened at an address right below a live one.
C1_Witness ==
    /\ last.op = "register_open_at" /\ last.res = "Ok" /\ last.size = 2
    /\ \E h \in Live(last.pre) : lo_of(desc_of(last.pre, h)) = last.at + last.size

\* C2: after any sequence of calls, failed ones included, paddr_to_hndls
\* holds exactly one entry per live handle h, the interval
\* [desc(h).paddr, desc(h).paddr + desc(h).size - 1] mapped to h, and no entry
\* for any other handle; its size() is the number of occupied slots.
C2_IndexIsLiveIntervals ==
    /\ \A h \in Live(Cur) :
          /\ Cardinality({i \in 1..Len(paddr_to_hndls) : paddr_to_hndls[i].data = h}) = 1
          /\ \E i \in 1..Len(paddr_to_hndls) :
                paddr_to_hndls[i] = [lo |-> lo_of(desc_of(Cur, h)),
                                     hi |-> hi_of(desc_of(Cur, h)),
                                     data |-> h]
    /\ \A i \in 1..Len(paddr_to_hndls) : paddr_to_hndls[i].data \in Live(Cur)
    /\ IST_size(paddr_to_hndls) = Cardinality(Live(Cur))

\* A register_open_at has failed, and a close before it has left a free
\* slot, with two descriptors still open.
C2_Witness ==
    /\ last.op = "register_open_at" /\ last.res = "AddressesOverlapError"
    /\ Cardinality(Live(Cur)) = 2
    /\ Len(hndl_to_descs) > 2

\* C3: register_open_at(at) of a descriptor of size s >= 1 fails with
\* AddressesOverlapError exactly when [at, at + s - 1] intersects the interval
\* of a live handle; otherwise it succeeds, the handle returned is live and
\* its descriptor's paddr is at.
C3_OpenAtFailsIffOverlap ==
    (last.op = "register_open_at" /\ last.res # "BackendError") =>
        IF ~Fits(last.pre, last.at, last.size)
        THEN last.res = "AddressesOverlapError"
        ELSE /\ last.res = "Ok"
             /\ last.hndl \in Live(Cur)
             /\ desc_of(Cur, last.hndl).paddr = last.at

\* A register_open_at has succeeded with a live descriptor starting right
\* after the new range and another one ending right before it.
C3_Witness ==
    /\ last.op = "register_open_at" /\ last.res = "Ok"
    /\ \E h \in Live(last.pre) : lo_of(desc_of(last.pre, h)) = last.at + last.size
    /\ \E h \in Live(last.pre) : hi_of(desc_of(last.pre, h)) + 1 = last.at

\* C4, as claimed: a register_open_at that fails with AddressesOverlapError
\* leaves the whole state as it was: live handles and descriptors, address
\* index, free_hndls, next_hndl and hndl_to_descs.len().
C4_FailedOpenAtChangesNothing ==
    (last.op = "register_open_at" /\ last.res = "AddressesOverlapError") =>
        Cur = last.pre

\* C4, amended: a register_open_at that fails with AddressesOverlapError
\* leaves the live handles, their descriptors and the address index as they
\* were.  With a free handle in the pool before the call, free_hndls,
\* next_hndl and hndl_to_descs.len() are unchanged too.  With an empty pool,
\* next_hndl and hndl_to_descs.len() are each one more than before, the new
\* slot is empty, and the pool holds the one handle the call took and gave back.
C4_FailedOpenAtRollsBack ==
    (last.op = "register_open_at" /\ last.res = "AddressesOverlapError") =>
        /\ Live(Cur) = Live(last.pre)
        /\ \A h \in Live(Cur) : desc_of(Cur, h) = desc_of(last.pre, h)
        /\ paddr_to_hndls = last.pre.ist
        /\ IF last.pre.free # <<>>
           THEN Cur = last.pre
           ELSE /\ next_hndl = last.pre.next + 1
                /\ hndl_to_descs = Append(last.pre.descs, None)
                /\ free_hndls = <<last.pre.next>>

\* A register_open_at has failed in a state whose pool was empty.
C4_Witness ==
    /\ last.op = "register_open_at" /\ last.res = "AddressesOverlapError"
    /\ last.pre.free = <<>>

\* C5: close(h) of a handle that is not live (never issued, beyond the table,
\* or closed already) fails with HndlNotFoundError and changes nothing; a
\* second close does not put the handle into the free pool again.
C5_CloseOfDeadHandle ==
    (last.op = "close" /\ is_none(hndl_to_desc(last.pre, last.hndl))) =>
        /\ last.res = "HndlNotFoundError"
        /\ Cur = last.pre

\* A handle already in the free pool has been closed again.
C5_Witness ==
    /\ last.op = "close" /\ last.res = "HndlNotFoundError"
    /\ last.hndl \in Range(last.pre.free)

\* C6: close(h) of a live handle succeeds and returns a descriptor with the
\* paddr and size recorded for h; right after it hndl_to_desc(h) is None and
\* paddr_to_hndl(a) is None for every a in [paddr, paddr + size - 1].
C6_CloseRoundTrip ==
    (last.op = "close" /\ ~is_none(hndl_to_desc(last.pre, last.hndl))) =>
        LET d == desc_of(last.pre, last.hndl)
        IN  /\ last.res = "Ok"
            /\ ~is_none(last.desc)
            /\ unwrap(last.desc).paddr = d.paddr
            /\ unwrap(last.desc).size = d.size
            /\ is_none(hndl_to_desc(Cur, last.hndl))
            /\ \A a \in lo_of(d)..hi_of(d) : is_none(paddr_to_hndl(Cur, a))

\* A descriptor of size 2 has been closed while another one stays open.
C6_Witness ==
    /\ last.op = "close" /\ last.res = "Ok"
    /\ unwrap(last.desc).size = 2
    /\ Live(Cur) # {}

\* C7: an open is given the smallest handle of the free pool when the pool
\* is not empty, whatever the order the handles were closed in, and
\* otherwise next_hndl, a value never issued before.
C7_SmallestFreeHandleFirst ==
    (IsOpen /\ last.res = "Ok") =>
        IF last.pre.free # <<>>
        THEN /\ last.hndl \in Range(last.pre.free)
             /\ \A f \in Range(last.pre.free) : last.hndl <= f
        ELSE /\ last.hndl = last.pre.next
             /\ last.hndl \notin last.issued_before

\* An open has taken a handle from a pool of two or more, and more handles
\* than that had been issued before.
C7_Witness ==
    /\ IsOpen /\ last.res = "Ok"
    /\ Len(last.pre.free) >= 2
    /\ Cardinality(last.issued_before) > 2

\* C8: register_open of a descriptor of size s >= 1 places it at the lowest
\* address a >= 0 such that [a, a + s - 1] intersects no live interval.
C8_LowestFit ==
    (last.op = "register_open" /\ last.res = "Ok") =>
        LET a == desc_of(Cur, last.hndl).paddr
        IN  /\ last.hndl \in Live(Cur)
            /\ a >= 0
            /\ Fits(last.pre, a, last.size)
            /\ \A b \in 0..(a - 1) : ~Fits(last.pre, b, last.size)

\* register_open has put a descriptor into the gap a close left between two
\* live descriptors.
C8_Witness ==
    /\ last.op = "register_open" /\ last.res = "Ok"
    /\ \E h \in Live(last.pre) :
          hi_of(desc_of(last.pre, h)) + 1 = desc_of(Cur, last.hndl).paddr
    /\ \E h \in Live(last.pre) :
          lo_of(desc_of(last.pre, h)) = desc_of(Cur, last.hndl).paddr + last.size

\* C9: paddr_range_to_hndl(addr, length), length >= 1, returns Some exactly
\* when every address of [addr, addr + length - 1] lies in the interval of a
\* live descriptor, and None when any part of the range is unmapped.
C9_SomeIffCovered ==
    (last.op = "paddr_range_to_hndl") =>
        ((last.res = "Some") <=>
            \A a \in last.at..(last.at + last.size - 1) : Mapped(Cur, a))

\* A range whose two ends are mapped and whose middle is not got None.
C9_Witness ==
    /\ last.op = "paddr_range_to_hndl" /\ last.res = "None"
    /\ Mapped(Cur, last.at)
    /\ Mapped(Cur, last.at + last.size - 1)
    /\ \E a \in last.at..(last.at + last.size - 1) : ~Mapped(Cur, a)

\* The chunks returned by the last paddr_range_to_hndl.
Chunks == unwrap(last.chunks)

\* C10: the chunks (hndl, start, len) of a Some result are in ascending start
\* order, the first starts at addr, each starts where the one before ended,
\* every len is >= 1, the lens sum to length, each handle appears once, and
\* each chunk lies inside its handle's interval, so that only the first and
\* the last chunk can be partial.
C10_ChunksTileTheRange ==
    (last.op = "paddr_range_to_hndl" /\ last.res = "Some") =>
        /\ Len(Chunks) >= 1
        /\ Chunks[1][2] = last.at
        /\ \A i \in 1..Len(Chunks) :
              /\ Chunks[i][3] >= 1
              /\ Chunks[i][1] \in Live(Cur)
              /\ lo_of(desc_of(Cur, Chunks[i][1])) <= Chunks[i][2]
              /\ Chunks[i][2] + Chunks[i][3] - 1 <= hi_of(desc_of(Cur, Chunks[i][1]))
        /\ \A i \in 1..(Len(Chunks) - 1) :
              /\ Chunks[i + 1][2] = Chunks[i][2] + Chunks[i][3]
              /\ Chunks[i][2] < Chunks[i + 1][2]
        /\ Chunks[Len(Chunks)][2] + Chunks[Len(Chunks)][3] = last.at + last.size
        /\ \A i, j \in 1..Len(Chunks) : i # j => Chunks[i][1] # Chunks[j][1]
        /\ \A i \in 2..(Len(Chunks) - 1) :
              /\ Chunks[i][2] = lo_of(desc_of(Cur, Chunks[i][1]))
              /\ Chunks[i][3] = desc_of(Cur, Chunks[i][1]).size

\* A range over three descriptors, starting inside the first one.
C10_Witness ==
    /\ last.op = "paddr_range_to_hndl" /\ last.res = "Some"
    /\ Len(Chunks) = 3
    /\ Chunks[1][2] > lo_of(desc_of(Cur, Chunks[1][1]))

\* The live handles whose interval holds address a.
HoldersOf(s, a) ==
    {h \in Live(s) : lo_of(desc_of(s, h)) <= a /\ a <= hi_of(desc_of(s, h))}

\* C11: paddr_to_hndl(a) returns Some(h) exactly when a lies in the interval
\* [paddr, paddr + size - 1] of live handle h, of which there is at most one,
\* and None when a lies in no live interval.
C11_PointQuery ==
    (last.op = "paddr_to_hndl") =>
        /\ Cardinality(HoldersOf(Cur, last.at)) <= 1
        /\ (last.res = "Some") <=> (HoldersOf(Cur, last.at) # {})
        /\ (last.res = "Some") => (last.hndl \in HoldersOf(Cur, last.at))

\* The last address of a descriptor of size 2 was asked for, and the address
\* after it is mapped to another handle.
C11_Witness ==
    /\ last.op = "paddr_to_hndl" /\ last.res = "Some"
    /\ desc_of(Cur, last.hndl).size = 2
    /\ hi_of(desc_of(Cur, last.hndl)) = last.at
    /\ HoldersOf(Cur, last.at + 1) # {}

\* C12: for every handle value h, at or beyond the table length included,
\* hndl_to_desc(h) and hndl_to_mut_desc(h) return a descriptor exactly when h
\* is live and None otherwise, never an error, and the descriptor returned
\* has its hndl field equal to h.
C12_HandleLookup ==
    (last.op \in {"hndl_to_desc", "hndl_to_mut_desc"}) =>
        /\ last.res \in {"Some", "None"}
        /\ (last.res = "Some") <=> (last.hndl \in Live(Cur))
        /\ (last.res = "None") <=> is_none(last.desc)
        /\ (last.res = "Some") =>
              /\ unwrap(last.desc) = desc_of(Cur, last.hndl)
              /\ unwrap(last.desc).hndl = last.hndl

\* A handle other than 0 was looked up and found, with a smaller handle
\* released before.
C12_Witness ==
    /\ last.op = "hndl_to_mut_desc" /\ last.res = "Some"
    /\ last.hndl > 0
    /\ free_hndls # <<>>

\* A handle at or beyond the table length was looked up.
C12_WitnessBeyond ==
    /\ last.op = "hndl_to_desc" /\ last.res = "None"
    /\ last.hndl >= Len(hndl_to_descs)

\* C13: when the backend's open fails inside register_open or
\* register_open_at, the backend's error is returned and nothing changes: no
\* handle is taken from the pool or the counter, and the handle table and
\* the address index are as before.
C13_BackendErrorChangesNothing ==
    (IsOpen /\ last.size = 0) =>
        /\ last.res = "BackendError"
        /\ Cur = last.pre
        /\ issued = last.issued_before

\* The backend has failed with a handle in the pool and a descriptor open.
C13_Witness ==
    /\ IsOpen /\ last.res = "BackendError"
    /\ last.pre.free # <<>>
    /\ Live(last.pre) # {}

\* C14: every handle value is in exactly one of three classes: live, in
\* free_hndls, or never issued (>= next_hndl); free_hndls holds no
\* duplicate and no live handle, and its size is next_hndl minus the number
\* of live handles.
C14_HandleClasses ==
    /\ \A h \in 0..(next_hndl + 1) :
          /\ (h \in Live(Cur)) \/ (h \in Range(free_hndls)) \/ (h >= next_hndl)
          /\ ~((h \in Live(Cur)) /\ (h \in Range(free_hndls)))
          /\ ~((h \in Live(Cur)) /\ (h >= next_hndl))
          /\ ~((h \in Range(free_hndls)) /\ (h >= next_hndl))
    /\ \A h \in Live(Cur) \cup Range(free_hndls) : h < next_hndl
    /\ Cardinality(Range(free_hndls)) = Len(free_hndls)
    /\ Len(free_hndls) = next_hndl - Cardinality(Live(Cur))
    /\ issued = 0..(next_hndl - 1)

\* An open has reused a handle while another handle stays in the pool and a
\* third one is live.
C14_Witness ==
    /\ IsOpen /\ last.res = "Ok"
    /\ last.hndl \in Range(last.pre.free)
    /\ free_hndls # <<>>
    /\ Cardinality(Live(Cur)) >= 2

\* C17: the handle a successful register_open or register_open_at returns
\* is the smallest non-negative integer that is not a live handle when the
\* call is made.
C17_SmallestNonLiveHandle ==
    (IsOpen /\ last.res = "Ok") =>
        /\ last.hndl \notin Live(last.pre)
        /\ \A k \in 0..(last.hndl - 1) : k \in Live(last.pre)

\* An open after a failed register_open_at has got a handle above 0 with
\* a greater handle free as well.
C17_Witness ==
    /\ IsOpen /\ last.res = "Ok"
    /\ last.hndl > 0
    /\ \E f \in Range(last.pre.free) : f > last.hndl
    /\ Len(last.pre.descs) > Cardinality(Live(last.pre)) + 1

\* The entry of the address index for live handle h of s.
EntryOf(s, h) ==
    [lo |-> lo_of(desc_of(s, h)), hi |-> hi_of(desc_of(s, h)), data |-> h]

\* C18: register_open, register_open_at (successful or failed) and close(h)
\* leave every handle that was live before, other than the h being closed,
\* live with the same paddr and size and with its interval in the address
\* index; close removes exactly one interval, that of h.
C18_OthersUntouched ==
    (IsOpen \/ last.op = "close") =>
        /\ \A h \in Live(last.pre) :
              \/ last.op = "close" /\ last.res = "Ok" /\ h = last.hndl
              \/ /\ h \in Live(Cur)
                 /\ desc_of(Cur, h) = desc_of(last.pre, h)
                 /\ EntryOf(Cur, h) \in Range(paddr_to_hndls)
        /\ (last.op = "close" /\ last.res = "Ok") =>
              /\ Len(paddr_to_hndls) = Len(last.pre.ist) - 1
              /\ Range(paddr_to_hndls) =
                    Range(last.pre.ist) \ {EntryOf(last.pre, last.hndl)}
        /\ (last.op = "close" /\ last.res # "Ok") => paddr_to_hndls = last.pre.ist

\* The descriptor in the middle of three has been closed.
C18_Witness ==
    /\ last.op = "close" /\ last.res = "Ok"
    /\ \E h \in Live(Cur) : h < last.hndl /\ hi_of(desc_of(Cur, h)) < unwrap(last.desc).paddr
    /\ \E h \in Live(Cur) : h > last.hndl /\ lo_of(desc_of(Cur, h)) > unwrap(last.desc).paddr

\* C20: hndl_to_descs.len() equals next_hndl after every operation, so a
\* handle from the free pool indexes an existing empty slot and a fresh
\* handle equals the table length: the descriptor registered under h is
\* stored at index h and overwrites no occupied slot.
C20_TableLengthIsNextHndl ==
    /\ Len(hndl_to_descs) = next_hndl
    /\ (IsOpen /\ last.res # "BackendError") =>
          /\ is_none(hndl_to_desc(last.pre, last.hndl))
          /\ (last.pre.free # <<>>) => (last.hndl < Len(last.pre.descs))
          /\ (last.pre.free = <<>>) => (last.hndl = Len(last.pre.descs))
          /\ \A h \in Live(last.pre) : h \in Live(Cur) \/ last.res # "Ok"
    /\ (IsOpen /\ last.res = "Ok") =>
          /\ last.hndl \in Live(Cur)
          /\ desc_of(Cur, last.hndl).hndl = last.hndl
          /\ desc_of(Cur, last.hndl).size = last.size
    /\ \A h \in Live(Cur) : desc_of(Cur, h).hndl = h

\* A handle from the pool has been given an empty slot below the last one.
C20_Witness ==
    /\ IsOpen /\ last.res = "Ok"
    /\ last.pre.free # <<>>
    /\ last.hndl + 1 < Len(hndl_to_descs)
    /\ is_none(last.pre.descs[last.hndl + 1])

\* What the caller saw of the call that has just returned in this run.
Seen ==
    Outcome(last.res, last.hndl,
            IF last.op \in {"register_open", "register_open_at"} /\ last.res = "Ok"
            THEN desc_of(Cur, last.hndl).paddr ELSE 0,
            last.desc, last.chunks)

FailedOpenAt == last.op = "register_open_at" /\ last.res = "AddressesOverlapError"

\* C19: a register_open_at that failed on overlap cannot be told from one
\* that was never made: every later call returns in this run what it returns
\* in the run without the failed calls: the same handle, the same address,
\* the same error, the same descriptor, the same chunks.
C19_FailedOpenAtInvisible ==
    (~Idle /\ last.op # "new" /\ ~FailedOpenAt) => Seen = twin.out

\* An open has handed out a handle after a failed register_open_at left the
\* two runs with different handle tables.
C19_Witness ==
    /\ last.op \in {"register_open", "register_open_at"}
    /\ last.res = "Ok"
    /\ twin.s # Cur
    /\ twin.out.hndl = last.hndl

\* C15: on every pass through the loop of register_open the candidate
\* address lo is strictly greater than it was on the pass before, for a
\* descriptor of size >= 1 among live descriptors of size >= 1, wherever
\* they lie in the 64-bit address space.
C15_LoStrictlyAdvances ==
    (/\ placing.active
     /\ placing.prev # None
     /\ placing.size >= 1
     /\ \A h \in Live(Cur) : desc_of(Cur, h).size >= 1)
    => placing.lo > unwrap(placing.prev)

\* C16: no call panics on the address arithmetic, and every interval stored
\* in the index is [paddr, paddr + size - 1] of its descriptor, computed in
\* the integers, with lo <= hi.
C16_NoWrapNoAbort ==
    /\ last.res # "Panic"
    /\ \A i \in 1..Len(paddr_to_hndls) :
          LET e == paddr_to_hndls[i]
              d == desc_of(Cur, e.data)
          IN  /\ e.lo <= e.hi
              /\ e.lo = d.paddr
              /\ e.hi = d.paddr + d.size - 1

====
